---- MODULE Spec2Model ----
(***************************************************************************)
(* The Twilio <-> OpenAI Realtime bridge of lyraro-voice-server.           *)
(*                                                                         *)
(* The repository holds several implementations of the same bridge:        *)
(*   "part_002"  src/unnamed/part_002 (and, with the same logic,           *)
(*               src/unnamed/part_000 lines 1-269): AI socket opened by    *)
(*               connectOpenAI() on the start frame, session.created /     *)
(*               session.updated handshake, sessionReady gate;             *)
(*   "server"    src/server.js: AI socket opened when the telephony socket *)
(*               is accepted, configuration and greeting sent on 'open';   *)
(*   "part_001"  src/unnamed/part_001: as "server" but without ready flag, *)
(*               credential check or line splitting, handlers in try/catch;*)
(*   "minimal"   src/unnamed/part_000 lines 271-360: no try/catch at all.  *)
(* The variable `variant` fixes which one runs.                            *)
(*                                                                         *)
(* One record per accepted telephony socket holds the variables the        *)
(* connection callback closes over (streamSid, openaiWs, sessionReady,     *)
(* greeting), the readyState of the sockets, and what was sent on them.    *)
(* Every socket callback is one action.                                    *)
(***************************************************************************)
EXTENDS Integers, Sequences, FiniteSets, TLC

\* ---------------------------------------------------------------- bounds
MaxSockets == 2     \* AI sockets one call may create (start frames that connect)
MaxAiOut == 4       \* events recorded as sent to the AI side, per call
MaxTwOut == 2       \* media frames recorded as sent to the telephony side, per call
MaxLines == 2       \* newline-delimited events in one AI-socket message

\* ------------------------------------------------------------- the inputs
NULL == "null"
Variants == {"part_002", "server", "part_001", "minimal"}
Calls == {1}
Sids == {"CA123", "CA456"}
MediaPayloads == {"AAA", "BBB"}
DeltaPayloads == {"ZZZZ"}
\* The greeting connection parameter: empty or not supplied, only white
\* space, or a text.
GreetingParams == {"", " ", "Guten Tag"}

\* Telephony frames.  arg: the streamSid of a start frame ("nostart": the
\* frame has no start object; NULL: a start object without streamSid), the
\* payload of a media frame ("nomedia": no media object; NULL: a media
\* object without payload).
TwilioFrames ==
  [event : {"start"}, arg : Sids \cup {NULL, "nostart"}]
    \cup [event : {"media"}, arg : MediaPayloads \cup {NULL, "nomedia"}]
    \cup [event : {"stop", "mark", "other", "malformed"}, arg : {NULL}]

\* One line of an AI-socket message.
DeltaTypes == {"response.audio.delta", "response.output_audio.delta"}
AiLines ==
  [type : DeltaTypes, delta : DeltaPayloads \cup {NULL}]
    \cup [type : {"session.created", "session.updated", "error", "other", "malformed"},
          delta : {NULL}]
\* The lines that come batched: the handshake events, an audio delta, a
\* line that does not parse.
BatchLines ==
  {l \in AiLines : l.type \in {"session.created", "session.updated", "malformed"}
                     \/ (l.type = "response.audio.delta" /\ l.delta # NULL)}
\* A physical message: one event, or several newline-delimited ones.
AiMessages == [1..1 -> AiLines] \cup UNION {[1..n -> BatchLines] : n \in 2..MaxLines}

VARIABLES
  variant,    \* which implementation runs
  apiKey,     \* OPENAI_API_KEY is set
  observe,    \* which side's outbound traffic is recorded: "ai" (aiOut) or "tw" (twOut);
              \* "ev": twOut, with the history of the deltas that were due;
              \* "sk": aiOut, with the history of each AI socket
  sess,       \* per telephony socket: the connection callback's state
  crashed,    \* an exception escaped a callback: the process is gone
  seen        \* history: the cases of interest that have happened so far

vars == <<variant, apiKey, observe, sess, crashed, seen>>

\* ------------------------------------------------------ the ws library
\* WebSocket.close(): OPEN -> CLOSING; CONNECTING -> the handshake is
\* aborted (readyState CLOSING, then 'error', then 'close'); else a no-op.
WsClose(st) ==
  CASE st = "open" -> "closing"
    [] st = "connecting" -> "aborted"
    [] OTHER -> st

\* WebSocket.send() without a callback, by readyState: it throws while
\* CONNECTING and does nothing once CLOSING or CLOSED (ws 7.5 and later, the
\* versions that export WebSocketServer, which the variants sending
\* unguarded import).
SendOutcome(st) ==
  CASE st = "open" -> "sent"
    [] st = "connecting" -> "throw"
    [] OTHER -> "dropped"

IsOpen(st) == st = "open"

\* ------------------------------------------------- one call's state
\* wired: the callbacks are registered; twilioWs, sockets: readyStates;
\* streamSid, openaiWs (an index into sockets, 0 for null), sessionReady
\* (openaiReady in server.js), greeting: the closure's variables; aiOut,
\* twOut: what was transmitted; thrown: an exception is propagating.
\* History: greetingParam, the greeting as the connection address gave it;
\* startSid, the streamSid of the latest start frame that carried one
\* (kept, like seen, for the side that is observed).
NoCall ==
  [wired |-> FALSE, twilioWs |-> "idle", streamSid |-> NULL, openaiWs |-> 0,
   sessionReady |-> FALSE, greeting |-> "", sockets |-> <<>>,
   aiOut |-> <<>>, twOut |-> <<>>, thrown |-> FALSE,
   greetingParam |-> "", startSid |-> NULL]

AiState(s) == IF s.openaiWs = 0 THEN NULL ELSE s.sockets[s.openaiWs]

\* new WebSocket(openaiUrl, ...): a socket in CONNECTING, kept in openaiWs.
NewSocket(s) ==
  [s EXCEPT !.sockets = Append(s.sockets, "connecting"),
            !.openaiWs = Len(s.sockets) + 1]

\* openaiWs.close()
CloseAi(s) ==
  IF s.openaiWs = 0 THEN s
  ELSE [s EXCEPT !.sockets[s.openaiWs] = WsClose(s.sockets[s.openaiWs])]

\* twilioWs.close()
CloseTwilio(s) == [s EXCEPT !.twilioWs = WsClose(s.twilioWs)]

AiEvent(s, type, data) == [sock |-> s.openaiWs, type |-> type, data |-> data]

\* The event reaches the AI service on the socket held in openaiWs.
AiTransmit(s, type, data) ==
  IF observe \in {"ai", "sk"}
    THEN [s EXCEPT !.aiOut = Append(s.aiOut, AiEvent(s, type, data))] ELSE s

\* openaiWs.send(JSON.stringify(ev)) with nothing around it.
RawAiSend(s, type, data) ==
  IF s.thrown THEN s
  ELSE IF s.openaiWs = 0 THEN [s EXCEPT !.thrown = TRUE]
  ELSE LET o == SendOutcome(AiState(s)) IN
       CASE o = "sent" -> AiTransmit(s, type, data)
         [] o = "throw" -> [s EXCEPT !.thrown = TRUE]
         [] OTHER -> s

\* sendOpenAIEvent(openaiWs, event) of server.js
sendOpenAIEvent(s, type, data) ==
  IF s.thrown THEN s
  ELSE IF s.openaiWs = 0 \/ ~IsOpen(AiState(s)) THEN s
  ELSE AiTransmit(s, type, data)

\* A frame built without the call identifier.
TwilioMediaMessage_NoSid(sid, payload) == [streamSid |-> NULL, payload |-> payload]

\* { event: 'media', streamSid, media: { payload } }
TwilioMediaMessage(sid, payload) == [streamSid |-> sid, payload |-> payload]

\* The frame reaches the telephony platform.
TwilioTransmit(s, payload) ==
  IF observe \in {"tw", "ev"}
    THEN [s EXCEPT !.twOut = Append(s.twOut, TwilioMediaMessage(s.streamSid, payload))]
    ELSE s

\* twilioWs.send(JSON.stringify(frame)) with nothing around it.
RawTwilioSend(s, payload) ==
  IF s.thrown THEN s
  ELSE LET o == SendOutcome(s.twilioWs) IN
       CASE o = "sent" -> TwilioTransmit(s, payload)
         [] o = "throw" -> [s EXCEPT !.thrown = TRUE]
         [] OTHER -> s

\* try { twilioWs.send(...) } catch { log }
TryTwilioSend(s, payload) ==
  LET r == RawTwilioSend(s, payload) IN
  IF s.thrown THEN s ELSE [r EXCEPT !.thrown = FALSE]

\* --------------------------------------------- connection parameters
DefaultGreeting == "Hallo, hier ist der digitale Assistent. Wie kann ich Ihnen weiterhelfen?"

\* const greeting = urlObj.searchParams.get('greeting') || '<default>'   (part_002, server)
\* const greeting = decodeURIComponent(url.searchParams.get('greeting') || '')  (part_001, minimal)
\* The parameter values modelled hold no percent sign, on which
\* decodeURIComponent is the identity.
Greeting(param) ==
  IF variant \in {"part_002", "server"}
    THEN (IF param = "" THEN DefaultGreeting ELSE param)
    ELSE param

Trim(g) == IF g = " " THEN "" ELSE g

\* if (greeting && greeting.trim().length > 0)   (part_002, server)
\* if (greeting)                                 (part_001, minimal)
SendsGreeting(g) ==
  IF variant \in {"part_002", "server"}
    THEN g # "" /\ Trim(g) # ""
    ELSE g # ""

\* if (!OPENAI_API_KEY) { twilioWs.close(); return; }   (part_002, server only)
ChecksApiKey == variant \in {"part_002", "server"}

\* function connectOpenAI() { openaiWs = new WebSocket(...); openaiWs.on(...) }
connectOpenAI(s) == NewSocket(s)

\* wss.on('connection', (twilioWs, req) => { ... })
OnConnection(param) ==
  IF ChecksApiKey /\ ~apiKey
    THEN [NoCall EXCEPT !.twilioWs = "closing", !.greetingParam = param]
    ELSE LET base == [NoCall EXCEPT !.wired = TRUE, !.twilioWs = "open",
                                    !.greeting = Greeting(param),
                                    !.greetingParam = param]
         IN IF variant = "part_002" THEN base ELSE NewSocket(base)

\* ------------------------------------------------ telephony callbacks
\* streamSid = data.start && data.start.streamSid
StartSid(f) == IF f.arg \in {NULL, "nostart"} THEN NULL ELSE f.arg

\* data.media && data.media.payload
HasPayload(f) == f.arg \notin {NULL, "nomedia"}

\* openaiWs && openaiWs.readyState === WebSocket.OPEN
AiIsOpen(s) == s.openaiWs # 0 /\ IsOpen(AiState(s))

\* eventType === 'media' && openaiWs && openaiWs.readyState === OPEN && sessionReady
MediaGate(s) ==
  CASE variant \in {"part_002", "server"} -> AiIsOpen(s) /\ s.sessionReady
    [] OTHER -> AiIsOpen(s)

\* if (openaiWs && openaiWs.readyState === WebSocket.OPEN) openaiWs.close();
CloseAiIfOpen(s) == IF AiIsOpen(s) THEN CloseAi(s) ELSE s

\* if (twilioWs.readyState === WebSocket.OPEN) twilioWs.close();
CloseTwilioIfOpen(s) == IF IsOpen(s.twilioWs) THEN CloseTwilio(s) ELSE s

Throw(s) == [s EXCEPT !.thrown = TRUE]

\* The 'start' branch.
OnStart(s, f) ==
  CASE variant = "part_002" -> connectOpenAI([s EXCEPT !.streamSid = StartSid(f)])
    [] variant = "server" -> [s EXCEPT !.streamSid = StartSid(f)]
    [] OTHER -> \* streamSid = data.start.streamSid
       IF f.arg = "nostart" THEN Throw(s) ELSE [s EXCEPT !.streamSid = f.arg]

\* The 'media' branch.
OnMedia(s, f) ==
  CASE variant = "part_002" ->
         IF ~MediaGate(s) \/ ~HasPayload(f) THEN s
         ELSE RawAiSend(s, "input_audio_buffer.append", f.arg)
    [] variant = "server" ->
         IF ~MediaGate(s) \/ ~HasPayload(f) THEN s
         ELSE sendOpenAIEvent(s, "input_audio_buffer.append", f.arg)
    [] OTHER -> \* audio: data.media.payload
         IF ~MediaGate(s) THEN s
         ELSE IF f.arg = "nomedia" THEN Throw(s)
         ELSE RawAiSend(s, "input_audio_buffer.append", f.arg)

\* The 'stop' branch.
OnStop(s) ==
  CASE variant \in {"part_002", "server"} -> CloseTwilioIfOpen(CloseAiIfOpen(s))
    [] variant = "part_001" -> CloseAiIfOpen(s)
    [] OTHER -> CloseAi(s)     \* openaiWs?.close()

\* try { data = JSON.parse(...) } catch { log; return }: every variant but minimal.
CatchesParse == variant # "minimal"

\* The whole callback body inside try { } catch { log }: part_001 only.
CatchesBody == variant = "part_001"

Caught(s, r) == IF ~s.thrown THEN [r EXCEPT !.thrown = FALSE] ELSE r

\* twilioWs.on('message', ...)
TwilioOnMessage(s, f) ==
  IF f.event = "malformed"
    THEN (IF CatchesParse THEN s ELSE Throw(s))     \* JSON.parse throws
    ELSE LET r == CASE f.event = "start" -> OnStart(s, f)
                    [] f.event = "media" -> OnMedia(s, f)
                    [] f.event = "stop" -> OnStop(s)
                    [] OTHER -> s
         IN IF CatchesBody THEN Caught(s, r) ELSE r

\* twilioWs.on('close', ...)
TwilioOnClose(s) ==
  IF variant = "minimal" THEN CloseAi(s) ELSE CloseAiIfOpen(s)

\* twilioWs.on('error', ...): part_001 only logs, minimal registers none
\* (an 'error' event nobody listens to is thrown by the emitter).
TwilioOnError(s) ==
  CASE variant \in {"part_002", "server"} -> CloseAiIfOpen(s)
    [] variant = "part_001" -> s
    [] OTHER -> Throw(s)

\* -------------------------------------------------- AI-side callbacks
\* The greeting at the point the variant sends it: conversation.item.create
\* carrying the text, then response.create.
GreetingSends(s) ==
  IF ~SendsGreeting(s.greeting) THEN s
  ELSE IF variant = "server"
    THEN sendOpenAIEvent(sendOpenAIEvent(s, "conversation.item.create", s.greeting),
                         "response.create", NULL)
    ELSE RawAiSend(RawAiSend(s, "conversation.item.create", s.greeting),
                   "response.create", NULL)

\* openaiWs.on('open', ...)
AiOnOpen(s) ==
  CASE variant = "part_002" -> s
    [] variant = "server" ->
         GreetingSends(sendOpenAIEvent([s EXCEPT !.sessionReady = TRUE],
                                       "session.update", NULL))
    [] OTHER -> GreetingSends(RawAiSend(s, "session.update", NULL))

\* openaiWs.on('close', ...): only server.js closes the telephony socket.
AiOnClose(s) == IF variant = "server" THEN CloseTwilioIfOpen(s) ELSE s

\* openaiWs.on('error', ...): logged; minimal registers no listener.
AiOnError(s) == IF variant = "minimal" THEN Throw(s) ELSE s

\* The audio-delta spellings a variant forwards.
AcceptedDelta(type) ==
  IF variant \in {"part_002", "server"}
    THEN type \in DeltaTypes
    ELSE type = "response.audio.delta"

\* The gate without its streamSid test.
DeltaGate_NoSidCheck(s, line) ==
  /\ AcceptedDelta(line.type)
  /\ line.delta # NULL
  /\ (variant \in {"part_002", "server"} => IsOpen(s.twilioWs))

\* ... && event.delta && streamSid && twilioWs.readyState === WebSocket.OPEN
\* (part_001 and minimal do not look at readyState)
DeltaGate(s, line) ==
  /\ AcceptedDelta(line.type)
  /\ line.delta # NULL
  /\ s.streamSid # NULL
  /\ (variant \in {"part_002", "server"} => IsOpen(s.twilioWs))

\* The audio-delta branch.
OnDelta(s, line) ==
  IF ~DeltaGate(s, line) THEN s
  ELSE IF variant \in {"part_002", "server"}
    THEN TryTwilioSend(s, line.delta)
    ELSE RawTwilioSend(s, line.delta)

\* A dispatch that treats an error event as fatal: both sockets closed.
DispatchEvent_ErrorFatal(s, line) ==
  IF s.thrown THEN s
  ELSE CASE line.type = "session.created" /\ variant = "part_002" ->
              RawAiSend(s, "session.update", NULL)
         [] line.type = "session.updated" /\ variant = "part_002" ->
              GreetingSends([s EXCEPT !.sessionReady = TRUE])
         [] line.type \in DeltaTypes -> OnDelta(s, line)
         [] line.type = "error" -> CloseTwilio(CloseAi(s))
         [] OTHER -> s

\* The body of the loop over the lines of one message (part_002, server),
\* or of the callback (part_001, minimal), for a line that parsed.
DispatchEvent(s, line) ==
  IF s.thrown THEN s
  ELSE CASE line.type = "session.created" /\ variant = "part_002" ->
              RawAiSend(s, "session.update", NULL)
         [] line.type = "session.updated" /\ variant = "part_002" ->
              GreetingSends([s EXCEPT !.sessionReady = TRUE])
         [] line.type \in DeltaTypes -> OnDelta(s, line)
         [] OTHER -> s

\* for (const line of lines) { try { JSON.parse } catch { continue } ... }
RECURSIVE DispatchLines(_, _, _)
DispatchLines(s, msg, i) ==
  IF i > Len(msg) \/ s.thrown THEN s
  ELSE DispatchLines(
         (IF msg[i].type = "malformed" THEN s ELSE DispatchEvent(s, msg[i])),
         msg, i + 1)

\* JSON.parse(data.toString()) of the whole message (part_001, minimal):
\* it parses only a message that is one well-formed event.
ParsesWhole(msg) == Len(msg) = 1 /\ msg[1].type # "malformed"

\* openaiWs.on('message', ...)
AiOnMessage(s, msg) ==
  CASE variant \in {"part_002", "server"} -> DispatchLines(s, msg, 1)
    [] variant = "part_001" ->
         IF ParsesWhole(msg) THEN Caught(s, DispatchEvent(s, msg[1])) ELSE s
    [] OTHER ->
         IF ParsesWhole(msg) THEN DispatchEvent(s, msg[1]) ELSE Throw(s)

\* ----------------------------------------------------------- the system
InitObserving(sides) ==
  /\ variant \in Variants
  /\ apiKey \in BOOLEAN
  /\ observe \in sides
  /\ sess = [c \in Calls |-> NoCall]
  /\ crashed = FALSE
  /\ seen = {}

Init == InitObserving({"ai", "tw"})
InitAi == InitObserving({"ai"})
InitTw == InitObserving({"tw"})
InitEv == InitObserving({"ev"})
InitSk == InitObserving({"sk"})

WithinBounds(s) ==
  /\ Len(s.sockets) <= MaxSockets
  /\ Len(s.aiOut) <= MaxAiOut
  /\ Len(s.twOut) <= MaxTwOut

\* The variables declared at module level: one copy for all connections.
Store_Shared(c, r) == [d \in DOMAIN sess |-> r]

\* let openaiWs, streamSid, sessionReady inside the connection callback: the
\* callbacks of connection c write connection c's variables.
Store(c, r) == [sess EXCEPT ![c] = r]

\* A callback of call c ran and left the call in state r; an exception that
\* escaped it ends the process.
Commit(c, r, notes) ==
  /\ WithinBounds(r)
  /\ sess' = Store(c, [r EXCEPT !.thrown = FALSE, !.startSid = sess[c].startSid])
  /\ crashed' = r.thrown
  /\ seen' = seen \cup notes
  /\ UNCHANGED <<variant, apiKey, observe>>

\* The telephony platform opens a socket on /media-stream.
AcceptWith(c, param) ==
  /\ ~crashed
  /\ sess[c].twilioWs = "idle"
  /\ Commit(c, OnConnection(param), {})

Accept(c) == \E param \in GreetingParams : AcceptWith(c, param)

\* The call has been told session.updated, its telephony socket is open and
\* none of its AI sockets has closed or begun to close.
Negotiated(c) ==
  /\ <<c, "session.updated">> \in seen
  /\ IsOpen(sess[c].twilioWs)
  /\ sess[c].sockets # <<>>
  /\ \A k \in DOMAIN sess[c].sockets : sess[c].sockets[k] \in {"connecting", "open"}

\* History: what the arrival of frame f on call c adds to seen.
FrameNotes(c, f) ==
  IF observe = "ai" /\ f.event = "media" /\ HasPayload(f) /\ Negotiated(c)
    THEN {<<c, "media while ready">>} ELSE {}

\* Frame f arrives on the telephony socket (also while it is closing).
TwilioFrame(c, f) ==
  /\ ~crashed
  /\ sess[c].wired
  /\ sess[c].twilioWs \in {"open", "closing"}
  /\ LET r == TwilioOnMessage(sess[c], f)
         sid == IF observe = "tw" /\ f.event = "start" /\ f.arg \in Sids
                  THEN f.arg ELSE sess[c].startSid
     IN /\ WithinBounds(r)
        /\ sess' = Store(c, [r EXCEPT !.thrown = FALSE, !.startSid = sid])
        /\ crashed' = r.thrown
        /\ seen' = seen \cup FrameNotes(c, f)
        /\ UNCHANGED <<variant, apiKey, observe>>

TwilioMessage(c) == \E f \in TwilioFrames : TwilioFrame(c, f)

\* The telephony socket's 'close' event.
TwilioClose(c) ==
  /\ ~crashed
  /\ sess[c].twilioWs \in {"open", "closing"}
  /\ LET s == [sess[c] EXCEPT !.twilioWs = "closed"]
     IN Commit(c, IF s.wired THEN TwilioOnClose(s) ELSE s, {})

\* The telephony socket's 'error' event; 'close' follows it.
TwilioError(c) ==
  /\ ~crashed
  /\ sess[c].twilioWs = "open"
  /\ LET s == [sess[c] EXCEPT !.twilioWs = "closing"]
     IN Commit(c, IF s.wired THEN TwilioOnError(s) ELSE Throw(s), {})

\* AI socket k finished its handshake.
AiOpen(c, k) ==
  /\ ~crashed
  /\ k \in DOMAIN sess[c].sockets
  /\ sess[c].sockets[k] = "connecting"
  /\ Commit(c, AiOnOpen([sess[c] EXCEPT !.sockets[k] = "open"]), {})

HasLine(msg, type) == \E i \in DOMAIN msg : msg[i].type = type

\* The audio deltas of a message that carry a payload.
PayloadDeltas(msg) == {i \in DOMAIN msg : msg[i].type \in DeltaTypes /\ msg[i].delta # NULL}

\* History: what the delivery of msg to call c adds to seen.
Notes(c, msg) ==
  (IF observe = "ai" /\ HasLine(msg, "session.updated")
     THEN {<<c, "session.updated">>} ELSE {})
    \cup (IF observe = "tw" /\ PayloadDeltas(msg) # {} /\ sess[c].streamSid = NULL
            THEN {<<c, "delta while streamSid unknown">>} ELSE {})
    \cup (IF observe = "ai" /\ HasLine(msg, "error") THEN {<<c, "error event">>} ELSE {})
    \cup (IF observe = "ev" /\ PayloadDeltas(msg) # {} /\ sess[c].streamSid # NULL
               /\ IsOpen(sess[c].twilioWs)
            THEN {<<c, "delta while streamSid known">>} ELSE {})

\* History: what the delivery of msg on socket k of call c adds to seen:
\* that socket k received session.updated, that a handshake event came in
\* on a socket which openaiWs no longer holds.
SocketNotes(c, k, msg) ==
  (IF observe = "sk" /\ HasLine(msg, "session.updated")
     THEN {<<c, k, "session.updated">>} ELSE {})
    \cup (IF observe = "sk" /\ k # sess[c].openaiWs
               /\ (HasLine(msg, "session.created") \/ HasLine(msg, "session.updated"))
            THEN {<<c, "handshake event on a replaced socket">>} ELSE {})

\* Message msg arrives on AI socket k (also while it is closing).
AiDeliver(c, k, msg) ==
  /\ ~crashed
  /\ k \in DOMAIN sess[c].sockets
  /\ sess[c].sockets[k] \in {"open", "closing"}
  /\ Commit(c, AiOnMessage(sess[c], msg), Notes(c, msg) \cup SocketNotes(c, k, msg))

AiMessage(c, k) == \E msg \in AiMessages : AiDeliver(c, k, msg)

\* AI socket k's 'close' event.
AiClose(c, k) ==
  /\ ~crashed
  /\ k \in DOMAIN sess[c].sockets
  /\ sess[c].sockets[k] \in {"open", "closing"}
  /\ Commit(c, AiOnClose([sess[c] EXCEPT !.sockets[k] = "closed"]), {})

\* AI socket k's 'error' event (a failed or aborted handshake, a transport
\* error); 'close' follows it.
AiError(c, k) ==
  /\ ~crashed
  /\ k \in DOMAIN sess[c].sockets
  /\ sess[c].sockets[k] \in {"connecting", "open", "aborted"}
  /\ Commit(c, AiOnError([sess[c] EXCEPT !.sockets[k] = "closing"]), {})

Next ==
  \E c \in Calls :
    \/ Accept(c)
    \/ TwilioMessage(c)
    \/ TwilioClose(c)
    \/ TwilioError(c)
    \/ \E k \in 1..MaxSockets :
         \/ AiOpen(c, k)
         \/ AiMessage(c, k)
         \/ AiClose(c, k)
         \/ AiError(c, k)

Spec == Init /\ [][Next]_vars

\* The same system with the traffic to the AI side recorded (aiOut), and
\* with the traffic to the telephony side recorded (twOut).
SpecAi == InitAi /\ [][Next]_vars
SpecTw == InitTw /\ [][Next]_vars
SpecEv == InitEv /\ [][Next]_vars
SpecSk == InitSk /\ [][Next]_vars

\* ------------------------------------------------------- concurrent calls
\* Two calls at a time.  The platform gives each call its own identifier,
\* and here each caller's audio is its own payload; the greeting parameter
\* is not supplied, and AI messages are single events.
TwoCalls == {1, 2}
SidOf(c) == IF c = 1 THEN "CA123" ELSE "CA456"
PayloadOf(c) == IF c = 1 THEN "AAA" ELSE "BBB"

FramesOf(c) ==
  {[event |-> "start", arg |-> SidOf(c)], [event |-> "media", arg |-> PayloadOf(c)],
   [event |-> "stop", arg |-> NULL]}

EventMessages ==
  {<<l>> : l \in {x \in AiLines : x.type = "session.updated"
                                   \/ (x.type = "response.audio.delta" /\ x.delta # NULL)}}

InitTwo ==
  /\ variant \in Variants
  /\ apiKey = TRUE
  /\ observe \in {"ai", "tw"}
  /\ sess = [c \in TwoCalls |-> NoCall]
  /\ crashed = FALSE
  /\ seen = {}

NextTwo ==
  \E c \in TwoCalls :
    \/ AcceptWith(c, "")
    \/ \E f \in FramesOf(c) : TwilioFrame(c, f)
    \/ TwilioClose(c)
    \/ TwilioError(c)
    \/ \E k \in 1..MaxSockets :
         \/ AiOpen(c, k)
         \/ \E msg \in EventMessages : AiDeliver(c, k, msg)
         \/ AiClose(c, k)
         \/ AiError(c, k)

SpecTwo == InitTwo /\ [][NextTwo]_vars

\* ------------------------------------------------------------ properties
Count(seq, type) == Cardinality({i \in DOMAIN seq : seq[i].type = type})

SessionUpdatedReceived(c) == <<c, "session.updated">> \in seen

StopFrame == [event |-> "stop", arg |-> NULL]

\* C1: for every call, no input_audio_buffer.append has been sent to the AI
\* side unless a session.updated event was received for that call before.
C1_NoAppendBeforeSessionUpdated ==
  \A c \in Calls :
    Count(sess[c].aiOut, "input_audio_buffer.append") > 0 => SessionUpdatedReceived(c)

\* C2: a call creates at most one AI socket in its lifetime, whatever start
\* frames it receives.
C2_AtMostOneAiSocket ==
  \A c \in Calls : Len(sess[c].sockets) <= 1

\* C3: the callback for the telephony socket's close, and the one for its
\* transport error, leave the call's AI socket not open if it was open.
C3_TelephonyCloseClosesAi ==
  [][\A c \in Calls :
       (TwilioClose(c) \/ TwilioError(c)) /\ AiIsOpen(sess[c]) => ~AiIsOpen(sess'[c])]_vars

\* C4: once the close of the call's AI socket has been handled, the call's
\* telephony socket is not left open.
C4_AiCloseClosesTelephony ==
  [][\A c \in Calls : \A k \in 1..MaxSockets :
       AiClose(c, k) /\ k = sess[c].openaiWs => ~IsOpen(sess'[c].twilioWs)]_vars

\* C5: handling a stop frame of a call that has an AI socket leaves the
\* telephony socket closed or closing and the AI socket closed or closing,
\* also when the AI socket was still connecting.
C5_StopClosesBoth ==
  [][\A c \in Calls :
       TwilioFrame(c, StopFrame) /\ sess[c].sockets # <<>>
         => /\ ~IsOpen(sess'[c].twilioWs)
            /\ AiState(sess'[c]) \notin {"connecting", "open"}]_vars

\* C6: no half-open pairing: once the telephony socket of a call has
\* closed, no AI socket of the call is open without a close under way.
C6_NoHalfOpenAfterTelephonyClose ==
  \A c \in Calls :
    sess[c].twilioWs = "closed"
      => \A k \in DOMAIN sess[c].sockets : sess[c].sockets[k] # "open"

\* C7: for a call whose greeting parameter is a text, at most one
\* conversation.item.create and at most one response.create are ever sent,
\* the item carries the greeting text, and none is sent before
\* session.updated was received (Ready).
C7_GreetingOnceAfterReady ==
  \A c \in Calls :
    sess[c].greetingParam = "Guten Tag"
      => /\ Count(sess[c].aiOut, "conversation.item.create") <= 1
         /\ Count(sess[c].aiOut, "response.create") <= 1
         /\ \A i \in DOMAIN sess[c].aiOut :
              /\ sess[c].aiOut[i].type = "conversation.item.create"
                   => sess[c].aiOut[i].data = "Guten Tag"
              /\ sess[c].aiOut[i].type \in {"conversation.item.create", "response.create"}
                   => SessionUpdatedReceived(c)

\* C8: for a call whose greeting parameter is empty or not supplied, no
\* conversation.item.create and no response.create is ever sent.
C8_NoGreetingWhenEmpty ==
  \A c \in Calls :
    sess[c].greetingParam = ""
      => /\ Count(sess[c].aiOut, "conversation.item.create") = 0
         /\ Count(sess[c].aiOut, "response.create") = 0

\* C9: the first media frame sent to the telephony socket of a call carries
\* as streamSid the identifier supplied by the call's (latest) start frame.
C9_FirstFrameCarriesStartSid ==
  [][\A c \in Calls :
       sess[c].twOut = <<>> /\ sess'[c].twOut # <<>>
         => /\ sess[c].startSid \in Sids
            /\ sess'[c].twOut[1].streamSid = sess[c].startSid]_vars

\* A first frame was sent, tagged with the identifier of the second of two
\* start frames.
C9_Witness ==
  \E c \in Calls :
    /\ sess[c].twOut # <<>>
    /\ sess[c].twOut[1].streamSid = "CA456"
    /\ sess[c].startSid = "CA456"

\* C10: no media frame is sent while the call identifier is unknown: a
\* step taken with streamSid unknown sends nothing, every frame sent is
\* tagged with an identifier, and frames are sent only by the delivery of an
\* AI message, no more of them than the message holds audio deltas (a
\* dropped delta is not sent later).
C10_NoFrameWhileStreamSidUnknown ==
  [][\A c \in Calls :
       /\ sess[c].streamSid = NULL => sess'[c].twOut = sess[c].twOut
       /\ \A i \in DOMAIN sess'[c].twOut : sess'[c].twOut[i].streamSid \in Sids
       /\ sess'[c].twOut # sess[c].twOut
            => \E k \in 1..MaxSockets : \E msg \in AiMessages :
                 /\ AiDeliver(c, k, msg)
                 /\ Len(sess'[c].twOut) - Len(sess[c].twOut)
                      <= Cardinality(PayloadDeltas(msg))]_vars

\* An audio delta arrived while the identifier was unknown, the identifier
\* is known by now, and no frame has been sent.
C10_Witness ==
  \E c \in Calls :
    /\ <<c, "delta while streamSid unknown">> \in seen
    /\ sess[c].streamSid \in Sids
    /\ sess[c].twOut = <<>>

\* C11: once a call is Ready (session.updated received, both sides up),
\* every media frame that carries a payload adds exactly one
\* input_audio_buffer.append with that payload to what was sent to the
\* call's AI socket, and nothing else adds an append: the appends sent are
\* the payloads received, in order, none lost, none duplicated.
C11_AppendsMirrorMedia ==
  [][\A c \in Calls :
       /\ \A f \in TwilioFrames :
            f.event = "media" /\ HasPayload(f) /\ Negotiated(c) /\ TwilioFrame(c, f)
              => sess'[c].aiOut
                   = Append(sess[c].aiOut,
                            AiEvent(sess[c], "input_audio_buffer.append", f.arg))
       /\ Count(sess'[c].aiOut, "input_audio_buffer.append")
            # Count(sess[c].aiOut, "input_audio_buffer.append")
            => \E f \in TwilioFrames :
                 /\ f.event = "media" /\ HasPayload(f) /\ TwilioFrame(c, f)
                 /\ sess'[c].aiOut
                      = Append(sess[c].aiOut,
                               AiEvent(sess[c], "input_audio_buffer.append", f.arg))]_vars

\* The media frames the audio deltas of msg call for, in their order.
DeltaFrames(sid, msg) ==
  LET ds == SelectSeq(msg, LAMBDA l : l.type \in DeltaTypes /\ l.delta # NULL)
  IN [i \in 1..Len(ds) |-> [streamSid |-> sid, payload |-> ds[i].delta]]

\* C12: when an AI message arrives while the call identifier is known and
\* the telephony socket is open, what is sent to the telephony socket grows
\* by exactly one media frame per audio delta with a payload in the message
\* (either type spelling), tagged with the identifier, carrying the
\* payload, in the order of the deltas.
C12_OneFramePerDelta ==
  [][\A c \in Calls : \A k \in 1..MaxSockets : \A msg \in AiMessages :
       (/\ AiDeliver(c, k, msg) /\ PayloadDeltas(msg) # {}
        /\ sess[c].streamSid \in Sids /\ IsOpen(sess[c].twilioWs))
         => /\ ~crashed'
            /\ sess'[c].twOut = sess[c].twOut \o DeltaFrames(sess[c].streamSid, msg)]_vars

\* C13: while the service credential is missing, every telephony socket
\* that was accepted is closed or closing, and no AI socket exists for it.
C13_NoCredentialNoCall ==
  ~apiKey
    => \A c \in Calls :
         sess[c].twilioWs # "idle"
           => ~IsOpen(sess[c].twilioWs) /\ sess[c].sockets = <<>>

\* The negotiation state of a call as the code holds it: the readyState of
\* the socket in openaiWs and the gate that lets caller audio through.  No
\* variable tells AwaitingCreated from AwaitingUpdated: both are "Awaiting".
NegotiationState(s) ==
  CASE s.openaiWs = 0 -> "Connecting"
    [] AiState(s) = "connecting" -> "Connecting"
    [] AiState(s) \in {"closing", "closed", "aborted"} -> "Closed"
    [] MediaGate(s) -> "Ready"
    [] OTHER -> "Awaiting"

NegotiationOrder == <<"Connecting", "Awaiting", "Ready", "Closed">>

NegotiationRank(s) ==
  CHOOSE i \in DOMAIN NegotiationOrder : NegotiationOrder[i] = NegotiationState(s)

\* C14: no step moves the negotiation state of a call back to an earlier
\* state of Connecting, Awaiting(Created/Updated), Ready, Closed; in
\* particular a step from Ready leads to Ready or to Closed.
C14_NegotiationNeverRegresses ==
  [][\A c \in Calls : NegotiationRank(sess'[c]) >= NegotiationRank(sess[c])]_vars

\* C15: every conversation.item.create and every response.create sent to
\* an AI socket of a call comes after a session.update sent to that socket,
\* whatever events the AI service sent and in whatever order.
C15_ConfigurationBeforeGreeting ==
  \A c \in Calls : \A i \in DOMAIN sess[c].aiOut :
    sess[c].aiOut[i].type \in {"conversation.item.create", "response.create"}
      => \E j \in 1..(i - 1) :
           /\ sess[c].aiOut[j].type = "session.update"
           /\ sess[c].aiOut[j].sock = sess[c].aiOut[i].sock

MalformedFrame == [event |-> "malformed", arg |-> NULL]
MalformedLine == [type |-> "malformed", delta |-> NULL]

\* C16: a frame that is not JSON, arriving on the telephony socket or as a
\* message on an AI socket, is dropped: the step changes nothing of the
\* call (no socket closed, nothing sent, streamSid, ready flag and openaiWs
\* as before) and the process goes on serving.
C16_MalformedFrameDropped ==
  [][\A c \in Calls :
       (\/ TwilioFrame(c, MalformedFrame)
        \/ \E k \in 1..MaxSockets : AiDeliver(c, k, <<MalformedLine>>))
         => sess' = sess /\ ~crashed']_vars

\* A message that is one handshake event, one audio delta with a payload.
HandshakeMessages == {<<l>> : l \in {x \in AiLines : x.type \in {"session.created", "session.updated"}}}
DeltaMessages == {<<l>> : l \in {x \in AiLines : x.type \in DeltaTypes /\ x.delta # NULL}}

\* C17: a send attempted while its target socket is not open is a silent
\* no-op.  A handshake event or a media frame handled while the socket in
\* openaiWs is not open, and an audio delta handled while the telephony
\* socket is not open, transmit nothing and let no exception escape.
C17_SendWhileNotOpenIsNoOp ==
  [][\A c \in Calls :
       /\ (/\ ~AiIsOpen(sess[c])
           /\ \/ \E k \in 1..MaxSockets : \E msg \in HandshakeMessages : AiDeliver(c, k, msg)
              \/ \E f \in TwilioFrames : f.event = "media" /\ TwilioFrame(c, f))
            => ~crashed' /\ sess'[c].aiOut = sess[c].aiOut
       /\ (/\ ~IsOpen(sess[c].twilioWs)
           /\ \E k \in 1..MaxSockets : \E msg \in DeltaMessages : AiDeliver(c, k, msg))
            => ~crashed' /\ sess'[c].twOut = sess[c].twOut]_vars

\* C18: with two calls whose callbacks interleave, nothing of one call is
\* routed to the other.  What is sent to the AI sockets of call c changes
\* only in a callback of call c's sockets, and every append there carries
\* audio received on call c's telephony socket; what is sent to call c's
\* telephony socket changes only when a message of one of call c's AI
\* sockets is handled, and every frame there is tagged with call c's
\* identifier.
C18_NoCrossRouting ==
  [][\A c \in TwoCalls :
       /\ \A i \in DOMAIN sess'[c].aiOut :
            /\ sess'[c].aiOut[i].sock \in DOMAIN sess'[c].sockets
            /\ sess'[c].aiOut[i].type = "input_audio_buffer.append"
                 => sess'[c].aiOut[i].data = PayloadOf(c)
       /\ \A i \in DOMAIN sess'[c].twOut : sess'[c].twOut[i].streamSid = SidOf(c)
       /\ Count(sess'[c].aiOut, "input_audio_buffer.append")
            # Count(sess[c].aiOut, "input_audio_buffer.append")
            => \E f \in FramesOf(c) : f.event = "media" /\ TwilioFrame(c, f)
       /\ sess'[c].twOut # sess[c].twOut
            => \E k \in 1..MaxSockets : \E msg \in EventMessages : AiDeliver(c, k, msg)]_vars

\* Both calls have had AI audio sent to their telephony sockets, each
\* tagged with its own identifier.
C18_Witness ==
  \A c \in TwoCalls :
    /\ sess[c].twOut # <<>>
    /\ \A i \in DOMAIN sess[c].twOut : sess[c].twOut[i].streamSid = SidOf(c)

ErrorMessage == <<[type |-> "error", delta |-> NULL]>>

\* C19: handling an AI-side event of type error changes nothing of the
\* call: neither socket is closed, nothing is sent to either side, the
\* ready flag, the AI socket handle and the call identifier stay as they
\* were, and the process goes on.
C19_ErrorEventNonFatal ==
  [][\A c \in Calls : \A k \in 1..MaxSockets :
       AiDeliver(c, k, ErrorMessage) => sess' = sess /\ ~crashed']_vars

\* An error event was handled in a call with both sockets open and the
\* identifier known, and both sockets are open.
C19_Witness ==
  \E c \in Calls :
    /\ <<c, "error event">> \in seen
    /\ ~crashed
    /\ IsOpen(sess[c].twilioWs)
    /\ AiIsOpen(sess[c])
    /\ sess[c].streamSid \in Sids

\* C20: an AI socket is created for a call only while a start frame of the
\* call is handled: accepting the telephony socket creates none, and no
\* other frame or event does.
C20_AiSocketOnlyOnStart ==
  [][\A c \in Calls :
       Len(sess'[c].sockets) > Len(sess[c].sockets)
         => \E f \in TwilioFrames : f.event = "start" /\ TwilioFrame(c, f)]_vars

\* C21: the 'open' event of an AI socket sends nothing and does not set the
\* ready flag, and a session.update is sent only while a message holding
\* session.created is handled.
C21_NoUpdateBeforeCreated ==
  [][\A c \in Calls :
       /\ \A k \in 1..MaxSockets :
            AiOpen(c, k)
              => /\ sess'[c].aiOut = sess[c].aiOut
                 /\ sess'[c].sessionReady = sess[c].sessionReady
       /\ Count(sess'[c].aiOut, "session.update") # Count(sess[c].aiOut, "session.update")
            => \E k \in 1..MaxSockets : \E msg \in AiMessages :
                 HasLine(msg, "session.created") /\ AiDeliver(c, k, msg)]_vars

\* The call has reached Closed: its telephony socket is closing or closed
\* (a stop frame was handled, or the socket closed), or one of its AI
\* sockets has closed.
CallClosed(s) ==
  \/ s.twilioWs \in {"closing", "closed"}
  \/ \E k \in DOMAIN s.sockets : s.sockets[k] = "closed"

\* C22: Closed is terminal: a step taken by a call that has reached Closed
\* leaves it Closed, sends nothing on either of its sockets and creates no
\* AI socket, whatever frame or event is delivered.
C22_ClosedIsTerminal ==
  [][\A c \in Calls :
       CallClosed(sess[c])
         => /\ CallClosed(sess'[c])
            /\ sess'[c].twOut = sess[c].twOut
            /\ sess'[c].aiOut = sess[c].aiOut
            /\ Len(sess'[c].sockets) = Len(sess[c].sockets)]_vars

\* C23: caller audio received before Ready is dropped and not buffered: a
\* media frame handled before session.updated was received changes nothing
\* of the call and sends nothing, and an append is sent only in the step
\* that handles a media frame, with that frame's payload (no payload is
\* kept and sent later).
C23_EarlyAudioDropped ==
  [][\A c \in Calls :
       /\ \A f \in TwilioFrames :
            (f.event = "media" /\ TwilioFrame(c, f) /\ ~SessionUpdatedReceived(c))
              => sess' = sess /\ ~crashed'
       /\ Count(sess'[c].aiOut, "input_audio_buffer.append")
            # Count(sess[c].aiOut, "input_audio_buffer.append")
            => \E f \in TwilioFrames :
                 /\ f.event = "media" /\ TwilioFrame(c, f)
                 /\ sess'[c].aiOut
                      = Append(sess[c].aiOut,
                               AiEvent(sess[c], "input_audio_buffer.append", f.arg))]_vars

\* The effect of the events of msg delivered as single-event messages, one
\* after the other, from the i-th on.
RECURSIVE OneByOne(_, _, _)
OneByOne(s, msg, i) ==
  IF i > Len(msg) \/ s.thrown THEN s
  ELSE OneByOne(AiOnMessage(s, <<msg[i]>>), msg, i + 1)

\* C24: a message that batches several newline-delimited events leaves the
\* call as the same events delivered one message each, in that order, would
\* leave it: every well-formed line is dispatched in order and a malformed
\* line is skipped without stopping the lines after it.
C24_BatchEqualsSequence ==
  [][\A c \in Calls : \A k \in 1..MaxSockets : \A msg \in AiMessages :
       (AiDeliver(c, k, msg) /\ Len(msg) > 1)
         => LET r == OneByOne(sess[c], msg, 1)
            IN /\ crashed' = r.thrown
               /\ sess'[c] = [r EXCEPT !.thrown = FALSE]]_vars

\* The frames the bridge is to ignore: mark, a kind it does not know, media
\* without a media object or without a payload.
IgnoredFrames ==
  {f \in TwilioFrames : \/ f.event \in {"mark", "other"}
                        \/ (f.event = "media" /\ ~HasPayload(f))}

\* C25: handling a mark frame, a frame of an unrecognized kind or a media
\* frame without payload changes nothing of the call: nothing is sent, no
\* socket is closed, streamSid, ready flag and openaiWs stay as they were,
\* and no exception escapes.
C25_IgnoredFramesHaveNoEffect ==
  [][\A c \in Calls : \A f \in IgnoredFrames :
       TwilioFrame(c, f) => sess' = sess /\ ~crashed']_vars

\* C26: every input_audio_buffer.append was sent on an AI socket that
\* itself had received session.updated: the ready flag that opened the
\* media gate belongs to the socket openaiWs holds, not to an earlier one.
C26_AppendOnConfiguredSocket ==
  \A c \in Calls : \A i \in DOMAIN sess[c].aiOut :
    sess[c].aiOut[i].type = "input_audio_buffer.append"
      => <<c, sess[c].aiOut[i].sock, "session.updated">> \in seen

\* C27: what the bridge sends in reaction to a handshake event goes to the
\* socket that delivered the event: when session.created or session.updated
\* arrives on a socket other than the one in openaiWs, no event is sent on
\* another socket of the call.
C27_ReplyOnDeliveringSocket ==
  [][\A c \in Calls : \A k \in 1..MaxSockets : \A msg \in AiMessages :
       (/\ AiDeliver(c, k, msg)
        /\ k # sess[c].openaiWs
        /\ HasLine(msg, "session.created") \/ HasLine(msg, "session.updated")
        /\ <<c, "handshake event on a replaced socket">> \notin seen)
         => \A i \in DOMAIN sess'[c].aiOut :
              i > Len(sess[c].aiOut) => sess'[c].aiOut[i].sock = k]_vars

\* C28: the call identifier, once captured from a start frame, stays as it
\* is for the rest of the call, and all media frames sent to one telephony
\* socket carry the same streamSid.
C28_StreamSidNeverChanges ==
  [][\A c \in Calls :
       /\ sess[c].streamSid \in Sids => sess'[c].streamSid = sess[c].streamSid
       /\ \A i, j \in DOMAIN sess'[c].twOut :
            sess'[c].twOut[i].streamSid = sess'[c].twOut[j].streamSid]_vars

====
